---- MODULE Spec2Model ----
(***************************************************************************)
(* playstack: unified playback adapters and playback-state synchronisation *)
(*                                                                         *)
(* Part 1 (LoaderSpec) models the resource loader, helper/load.ts in its    *)
(* two revisions and helper/wait.ts: script injection, polling, timeout.   *)
(* Part 2 (Spec) models the Player and the mounting, unmounting and        *)
(* re-running of the adapters' effects under prop changes, with the        *)
(* vendors' events as they reach the adapters' handlers.                   *)
(* Part 3 (PlaybackSpec) models playback within one mount, with the        *)
(* vendor player's state, the commands posted to it and its reports.       *)
(* Part 4 (ControlsSpec) models the Controls over a YouTube mount: the     *)
(* keyboard shortcuts and the seek bar, and the commands they issue.       *)
(* Part 5 (NativeSpec) models the native adapter alone: its loading path   *)
(* and the <video> element's stalls.                                       *)
(***************************************************************************)
EXTENDS Integers, Sequences, FiniteSets, TLC

\* ------------------------------------------------------------------ bounds
\* Number of load(name) calls made in one run of the loader model.
MaxCalls == 2
\* Horizon of the clock of the loader model, in clock ticks.
MaxClock == 5
\* Number of times the host changes the Player's props in one run.
MaxUpdates == 1
\* Number of vendor events, settled promises and commands delivered in one run.
MaxEvents == 2
\* Number of inputs (keys, seek bar moves) the Controls handle in one run.
MaxInputs == 2
\* Largest media time a vendor reports, in ticks.
MaxTime == 2
\* Ticks per second: the resolution at which fractional seconds are kept.
TicksPerSecond == 2

\* ------------------------------------------------------- the loader's world
\* Library names: keys of `scripts`.  Two of the five suffice: the loader
\* treats every key alike.
Libs == {"YT", "Vimeo"}

\* The revisions of the loader present in the source tree:
\*   "flag"   loadLibrary that polls window.playerLoaded[library]
\*   "symbol" loadLibrary that polls window[library]
\*   "wait"   waitForLibrary, which polls window[library] and injects nothing
LoaderRevs == {"flag", "symbol", "wait"}

\* Arguments a caller passes: polling interval and timeout, in clock ticks.
Intervals == {2}
Timeouts == {1, 3}

VARIABLES
  loaderRev,  \* which revision of the loader the build uses
  now,        \* Date.now(), in ticks
  tags,       \* tags[l]: number of <script src=scripts[l]> in document.head
  hooked,     \* hooked[l]: the tag carries loadLibrary's onload handler
  symbol,     \* symbol[l]: typeof window[l] !== 'undefined'
  flag,       \* flag[l]: window.playerLoaded?.[l]
  calls       \* the load(name) calls made so far, in call order

VARIABLES
  playerRev,  \* which revision of the Player's reset effect the build uses
  nativeHls,  \* canPlayType('application/vnd.apple.mpegurl') is non-empty
  src,        \* the Player's src prop
  cfg,        \* the Player's config prop
  updates,    \* number of prop changes so far
  nev,        \* number of vendor events and settled promises delivered so far
  store,      \* the PlaybackState: the Player's useState cells
  sessions,   \* the adapter effect instances, in mount order
  comps,      \* the adapter component instances, in mount order
  everPlaying,\* playbackStatus has been 'playing' since the last adapter mount
  vendor,     \* the vendor player of the playback model and its message queues
  host,       \* what the host has got from the Player: handle and callbacks
  ui          \* the Controls: their revision and the last command they issued

loaderVars == <<loaderRev, now, tags, hooked, symbol, flag, calls>>

lifeVars == <<playerRev, nativeHls, src, cfg, updates, nev, store, sessions,
              comps, everPlaying, vendor, host, ui>>

vars == <<loaderRev, now, tags, hooked, symbol, flag, calls,
          playerRev, nativeHls, src, cfg, updates, nev, store, sessions,
          comps, everPlaying, vendor, host, ui>>

\* The host's side at the first render and at the start of a mount:
\*   handle      the component whose handle the Player's ref exposes
\*   readyCalls  calls of the onReady prop in this mount (2 stands for more)
\*   applied     times the default volume and mute were sent to the adapter
\*               in this mount (2 stands for more)
\*   threw       a method of the handle called by the host threw
\*   onTimeUpdate  the host passed an onTimeUpdate prop
\*   time        the {current, duration} of the last call of onTimeUpdate
\*   timeCalls   calls of onTimeUpdate during the last step
NewHost(c) ==
  [handle |-> c, readyCalls |-> 0, applied |-> 0, threw |-> FALSE,
   onTimeUpdate |-> FALSE, time |-> <<0, 0>>, timeCalls |-> 0]

\* The Controls before any input: no command issued.
\*   cmd, arg  the last method of the handle the Controls called, and its
\*             argument; by: "key" for a keyboard shortcut, "bar" for the
\*             seek bar
\*   live, dur the store's live and duration when the command was issued
\*   n         the number of inputs handled
NewUi(rev) ==
  [rev |-> rev, cmd |-> "none", arg |-> 0, by |-> "none", live |-> FALSE,
   dur |-> 0, n |-> 0]

\* The adapter model at rest, for the runs of the loader model alone.
LifeIdle ==
  /\ playerRev = "video"
  /\ nativeHls = FALSE
  /\ src = "none"
  /\ cfg = [dc |-> FALSE, bunny |-> FALSE]
  /\ updates = 0
  /\ nev = 0
  /\ store = <<>>
  /\ sessions = <<>>
  /\ comps = <<>>
  /\ everPlaying = FALSE
  /\ vendor = [kind |-> "none"]
  /\ host = NewHost(0)
  /\ ui = NewUi("none")

\* What a poll tests to decide that the library is there.
Observed(l) ==
  IF loaderRev = "flag" THEN flag[l] ELSE symbol[l]

\* The `if (!document.head.querySelector(...))` guard of loadLibrary
\* (NeedsInjectAlways: a loadLibrary without the guard).
NeedsInjectAlways(l) == loaderRev # "wait"
NeedsInject(l) == loaderRev # "wait" /\ tags[l] = 0

\* One run of check(): resolve, reject or schedule the next poll.
\* `c` is the call, the result is the call after the poll.
\* (CheckNeverRejects: a check() without the timeout branch.)
\* (CheckRejectsAtOnce: a check() that gives up at the first miss.)
CheckRejectsAtOnce(c) ==
  LET seen == Observed(c.lib)
      elapsed == now - c.start
      base == [c EXCEPT !.polls = c.polls + 1, !.lastElapsed = elapsed,
                        !.lastSeen = seen,
                        !.missed = c.missed \/ (symbol[c.lib] /\ ~seen)]
  IN  IF seen THEN [base EXCEPT !.status = "resolved"]
      ELSE [base EXCEPT !.status = "rejected"]
CheckNeverRejects(c) ==
  LET seen == Observed(c.lib)
      elapsed == now - c.start
      base == [c EXCEPT !.polls = c.polls + 1, !.lastElapsed = elapsed,
                        !.lastSeen = seen,
                        !.missed = c.missed \/ (symbol[c.lib] /\ ~seen)]
  IN  IF seen THEN [base EXCEPT !.status = "resolved"]
      ELSE [base EXCEPT !.due = now + c.interval]
Check(c) ==
  LET seen == Observed(c.lib)
      elapsed == now - c.start
      base == [c EXCEPT !.polls = c.polls + 1, !.lastElapsed = elapsed,
                        !.lastSeen = seen,
                        !.missed = c.missed \/ (symbol[c.lib] /\ ~seen)]
  IN  IF seen THEN [base EXCEPT !.status = "resolved"]
      ELSE IF elapsed > c.timeout THEN [base EXCEPT !.status = "rejected"]
      ELSE [base EXCEPT !.due = now + c.interval]

\* A timer is due: the clock does not pass a scheduled poll.
TimerDue ==
  \E i \in DOMAIN calls : calls[i].status = "polling" /\ calls[i].due <= now

LoaderInit ==
  /\ loaderRev \in LoaderRevs
  /\ now = 0
  \* a tag may already be in the document (injected by Provider), without
  \* loadLibrary's onload handler
  /\ tags \in [Libs -> {0, 1}]
  /\ hooked = [l \in Libs |-> FALSE]
  /\ symbol = [l \in Libs |-> FALSE]
  /\ flag = [l \in Libs |-> FALSE]
  /\ calls = <<>>
  /\ LifeIdle

\* loadLibrary(library, interval, timeout) / waitForLibrary(...): the body of
\* the promise executor, the first check() included.
LoadLibrary(l, iv, to) ==
  /\ Len(calls) < MaxCalls
  /\ now + to + iv <= MaxClock
  /\ LET inject == NeedsInject(l)
         c0 == [lib |-> l, start |-> now, interval |-> iv, timeout |-> to,
                due |-> now, status |-> "polling", polls |-> 0,
                lastElapsed |-> 0, lastSeen |-> FALSE, missed |-> FALSE,
                injected |-> inject]
     IN  /\ tags' = IF inject THEN [tags EXCEPT ![l] = tags[l] + 1] ELSE tags
         /\ hooked' = IF inject /\ loaderRev = "flag"
                        THEN [hooked EXCEPT ![l] = TRUE] ELSE hooked
         /\ calls' = Append(calls, Check(c0))
  /\ UNCHANGED <<loaderRev, now, symbol, flag>>
  /\ UNCHANGED lifeVars

\* setTimeout(check, interval) fires.
Poll(i) ==
  /\ i \in DOMAIN calls
  /\ calls[i].status = "polling"
  /\ calls[i].due <= now
  /\ calls' = [calls EXCEPT ![i] = Check(calls[i])]
  /\ UNCHANGED <<loaderRev, now, tags, hooked, symbol, flag>>
  /\ UNCHANGED lifeVars

\* The browser fetches and runs the script of a tag: the library defines its
\* global, then the tag's load event runs script.onload when it has one.
ScriptExecuted(l) ==
  /\ tags[l] > 0
  /\ ~symbol[l]
  /\ symbol' = [symbol EXCEPT ![l] = TRUE]
  /\ flag' = IF hooked[l] THEN [flag EXCEPT ![l] = TRUE] ELSE flag
  /\ UNCHANGED <<loaderRev, now, tags, hooked, calls>>
  /\ UNCHANGED lifeVars

\* Time passes; a due timer runs first.
Tick ==
  /\ now < MaxClock
  /\ ~TimerDue
  /\ now' = now + 1
  /\ UNCHANGED <<loaderRev, tags, hooked, symbol, flag, calls>>
  /\ UNCHANGED lifeVars

LoaderNext ==
  \/ \E l \in Libs, iv \in Intervals, to \in Timeouts : LoadLibrary(l, iv, to)
  \/ \E i \in 1..MaxCalls : Poll(i)
  \/ \E l \in Libs : ScriptExecuted(l)
  \/ Tick

\* The event loop runs every due timer and time passes; whether a script
\* ever arrives is up to the network (no fairness on ScriptExecuted).
LoaderSpec ==
  /\ LoaderInit
  /\ [][LoaderNext]_vars
  /\ WF_vars(Tick)
  /\ \A i \in 1..MaxCalls : WF_vars(Poll(i))

\* ===========================================================================
\* Part 2: the Player (orchestrator), its PlaybackState and the adapters.
\*
\* Units: media times and durations are in ticks (TicksPerSecond per second),
\* volumes in thousandths (0.5 is 500), playback rates in hundredths (1 is 100).
\* ===========================================================================

\* `undefined`, as read through a detached ref (videoRef.current?.x).
Undef == -1
\* error === null
NoError == "null"
\* defaultOptions.volume
DefaultVolume == 500
\* setPlaybackRate(1)
DefaultRate == 100

\* The initial values of the useState cells, which are also what the reset
\* effect writes.
DefaultState ==
  [ready |-> FALSE, duration |-> 0, currentTime |-> 0, state |-> "paused",
   started |-> FALSE, volume |-> DefaultVolume, muted |-> FALSE,
   playbackRate |-> DefaultRate, error |-> NoError, live |-> FALSE]

\* The reset effect's dependency array: [video] in one revision of the
\* Player, [src] in the other.  `srcChanged`: the src prop differs from the
\* previous render.  The descriptor `video` is a fresh object whenever src or
\* config is a different value or object.
PlayerRevs == {"video", "src"}
ResetFires(rev, srcChanged) == rev = "video" \/ srcChanged

\* ------------------------------------------------------------ the descriptor
\* The sources the host passes.  get-video-id and the suffix tests of the
\* native adapter see them as follows.
\* "http_a" is a URL that is neither https: nor blob:.
Sources == {"yt_a", "vimeo_a", "mp4_a", "m3u8_a", "gdrive_a", "http_a", "no_src"}
Configs ==
  {[dc |-> FALSE, bunny |-> FALSE], [dc |-> TRUE, bunny |-> FALSE],
   [dc |-> FALSE, bunny |-> TRUE]}

\* The props the host renders the Player with: the Drive URL and the URL
\* that is not allowed come with the plain configuration only, a missing
\* src ("no_src") with config.bunny only.
Props ==
  {p \in Sources \X Configs :
     /\ p[1] \in {"gdrive_a", "http_a"} => p[2] = [dc |-> FALSE, bunny |-> FALSE]
     /\ p[1] = "no_src" => p[2] = [dc |-> FALSE, bunny |-> TRUE]}

ServiceOfUrl(u) ==
  CASE u \in {"yt_a", "yt_shorts"} -> "youtube"
    [] u = "vimeo_a" -> "vimeo"
    [] u = "gdrive_a" -> "gdrive"
    [] OTHER -> "other"

\* src.includes('shorts')
IsShorts(u) == u = "yt_shorts"

\* The `video` memo: service, src and id of the descriptor; service "null"
\* stands for the memo being null.
Classify(u, c) ==
  IF c.bunny THEN [service |-> "bunny", src |-> u, id |-> "bunny_id"]
  ELSE IF u \in {"http_a", "no_src"} THEN [service |-> "null", src |-> "", id |-> ""]
  ELSE [service |-> IF ServiceOfUrl(u) = "youtube" /\ IsShorts(u)
                      THEN "youtube-shorts" ELSE ServiceOfUrl(u),
        src |-> u, id |-> u]

\* The component the Player renders for a service; "None" when it renders
\* no adapter (`video?.src && <Video ...>` with a null descriptor).
\* (AdapterOfNoDrive: a Player without the gdrive branch.)
AdapterOfNoDrive(service) ==
  CASE service \in {"youtube", "youtube-shorts"} -> "Youtube"
    [] service = "vimeo" -> "Vimeo"
    [] service = "bunny" -> "Bunny"
    [] service = "null" -> "None"
    [] OTHER -> "Video"
AdapterOf(service) ==
  CASE service \in {"youtube", "youtube-shorts"} -> "Youtube"
    [] service = "vimeo" -> "Vimeo"
    [] service = "bunny" -> "Bunny"
    [] service = "gdrive" -> "GDrive"
    [] service = "null" -> "None"
    [] OTHER -> "Video"

\* The dependencies of the adapter's main effect that props can change.
EffectDeps(kind, d, c) ==
  CASE kind = "Youtube" -> <<d.id, d.service, c.dc>>
    [] kind = "Vimeo" -> <<d.src, d.id, c.dc>>
    [] OTHER -> <<d.src>>

\* src.endsWith('.m3u8') || src.includes('stream.mux.com')
IsHls(u) == u = "m3u8_a"

\* ------------------------------------------------------ handlers (YouTube)
\* Each handler is the PlaybackState after the handler ran on state st.

\* Math.floor of a time in seconds, the time being kept in ticks.
Floor(t) == (t \div TicksPerSecond) * TicksPerSecond

YtOnReady(st, dur) == [st EXCEPT !.ready = TRUE, !.duration = dur]

YtOnStateChange(st, data) ==
  IF data = 1 THEN [st EXCEPT !.state = "playing", !.started = TRUE]
  ELSE IF data = 3 THEN [st EXCEPT !.state = "buffering"]
  ELSE [st EXCEPT !.state = "paused"]

\* e: error.data, as a string ("5", "100", ...); dur: what
\* playerRef.current?.getDuration() returns, in ticks; playable:
\* videoData?.isPlayable, "absent" when it is not a boolean.
\* (YtOnErrorUnready: an onError that also lowers ready.)
\* (YtOnErrorAnyDuration: an onError that does not ask for the duration.)
YtOnErrorUnready(st, e, dur, playable) ==
  [st EXCEPT !.error = e, !.ready = FALSE]
YtOnErrorAnyDuration(st, e, dur, playable) ==
  IF e = "5"
    THEN IF playable = "false" THEN [st EXCEPT !.error = e] ELSE st
    ELSE [st EXCEPT !.error = e]
YtOnError(st, e, dur, playable) ==
  IF e = "5" /\ dur >= TicksPerSecond
    THEN IF playable = "false" THEN [st EXCEPT !.error = e] ELSE st
    ELSE [st EXCEPT !.error = e]

\* info: the infoDelivery payload; info.has is the set of fields present.
\* `if (data.info.currentTime)` is false for 0 as for an absent field.
YtOnMessage(st, info) ==
  LET s1 == IF "currentTime" \in info.has /\ info.currentTime # 0
              THEN [st EXCEPT !.currentTime = Floor(info.currentTime)] ELSE st
      s2 == IF "volume" \in info.has
              THEN [s1 EXCEPT !.volume = (info.volume * 1000) \div 100] ELSE s1
      s3 == IF "muted" \in info.has THEN [s2 EXCEPT !.muted = info.muted] ELSE s2
      s4 == IF "playbackRate" \in info.has
              THEN [s3 EXCEPT !.playbackRate = info.playbackRate] ELSE s3
  IN  IF "isLive" \in info.has /\ info.isLive THEN [s4 EXCEPT !.live = TRUE] ELSE s4

\* onMessage, the window's 'message' listener: own is
\* `event.source === iframeWindow`, ev is data.event.
\* (YtOnWindowMessageAny: a listener without the test of event.source.)
YtOnWindowMessageAny(st, own, ev, info) ==
  IF ev = "infoDelivery" THEN YtOnMessage(st, info) ELSE st
YtOnWindowMessage(st, own, ev, info) ==
  IF own /\ ev = "infoDelivery" THEN YtOnMessage(st, info) ELSE st

\* --------------------------------------------------------- handlers (Vimeo)
VimeoOnReady(st) == [st EXCEPT !.ready = TRUE]
VimeoOnDuration(st, dur) == [st EXCEPT !.duration = dur]
VimeoOnPlay(st) == [st EXCEPT !.started = TRUE, !.state = "playing"]
VimeoOnPause(st) == [st EXCEPT !.state = "paused"]
VimeoOnBuffering(st) == [st EXCEPT !.state = "buffering"]
VimeoOnTimeUpdate(st, t) == [st EXCEPT !.currentTime = t]
VimeoOnError(st, e) == [st EXCEPT !.error = e]
VimeoOnVolumeChange(st, m, v) == [st EXCEPT !.muted = m, !.volume = v]
VimeoOnPlaybackRateChange(st, r) == [st EXCEPT !.playbackRate = r]

\* --------------------------------------------------------- handlers (Bunny)
BunnyOnReady(st) == [st EXCEPT !.ready = TRUE]
BunnyOnDuration(st, dur) == [st EXCEPT !.duration = dur]
BunnyOnTimeUpdate(st, t) == [st EXCEPT !.currentTime = t]

\* -------------------------------------------------------- handlers (native)
\* The handlers read the element through videoRef.current?.x, which is
\* undefined once React has detached the ref.
VideoOnCanPlay(st, dur) == [st EXCEPT !.ready = TRUE, !.duration = dur]
VideoOnTimeUpdate(st, t) == [st EXCEPT !.currentTime = t]
VideoOnPlay(st) == [st EXCEPT !.started = TRUE, !.state = "playing"]
VideoOnPause(st) == [st EXCEPT !.state = "paused"]
VideoOnWaiting(st) == [st EXCEPT !.state = "buffering"]
VideoOnVolumeChange(st, m, v) == [st EXCEPT !.muted = m, !.volume = v]
VideoOnRateChange(st, r) == [st EXCEPT !.playbackRate = r]

\* ------------------------------------------------- the Player's effects
\* What the Player's own effects do after a render in which the state went
\* from `old` to `new`; cur is the mounted component, hasVolume tells that
\* its handle has setVolume and setMuted.
\*   useImperativeHandle(ref, () => playerRef.current, [playerRef, ready])
\*   the ready effect, deps [ready, started, playerRef, isIOS]
Count(n) == IF n < 2 THEN n + 1 ELSE n
\* The onTimeUpdate effect (deps [duration, currentTime]) after the render
\* that takes the store from old to new.
\* (TimeUpdateOnTimeOnly: an effect whose only dependency is currentTime.)
TimeUpdateOnTimeOnly(old, new, h) ==
  IF ~h.onTimeUpdate THEN h
  ELSE IF old.currentTime # new.currentTime
    THEN [h EXCEPT !.time = <<new.currentTime, new.duration>>, !.timeCalls = 1]
    ELSE [h EXCEPT !.timeCalls = 0]
TimeUpdateEffect(old, new, h) ==
  IF ~h.onTimeUpdate THEN h
  ELSE IF old.currentTime # new.currentTime \/ old.duration # new.duration
    THEN [h EXCEPT !.time = <<new.currentTime, new.duration>>, !.timeCalls = 1]
    ELSE [h EXCEPT !.timeCalls = 0]

PlayerEffects(old, new, h, cur, hasVolume) ==
  LET h1 == IF old.ready # new.ready THEN [h EXCEPT !.handle = cur] ELSE h
      ran == old.ready # new.ready \/ old.started # new.started
      h2 == IF ran /\ new.ready
              THEN [h1 EXCEPT !.applied = IF hasVolume THEN Count(@) ELSE @,
                              !.readyCalls = IF ~new.started THEN Count(@) ELSE @]
              ELSE h1
  IN  TimeUpdateEffect(old, new, h2)

\* The handle of a `kind` adapter has setVolume and setMuted.
HasVolume(kind) == kind \in {"Youtube", "Vimeo", "Video"}

\* ------------------------------------------------- components and effects
\* A component instance: one mounted adapter component.  playerRef is the
\* session whose player playerRef.current holds (0 for null); child is the
\* session whose player's iframe is in the component's DOM (0 for none);
\* media and elPlaying describe the <video> element of the native adapter.
NewComp(kind) ==
  [kind |-> kind, mounted |-> TRUE, playerRef |-> 0, child |-> 0,
   media |-> "empty", elPlaying |-> FALSE]

\* A session: one run of an adapter's main effect, with its closures.
\*   load    the promise of loadLibrary / waitForLibrary
\*   player  the vendor player this run created
\*   aw      the session whose player's ready this run waits for
\*   vready  the ready callback of this run has run
\*   lst     the session whose player this run's handlers are attached to
\*           (for the native adapter: 1 when attached to the element)
\*   msg     this run's onMessage is a listener of window
\*   durOn   a getDuration request of this run is outstanding
\*   cleaned the effect's cleanup has run; pend, inst: at that time the load
\*           or the vendor's ready was pending, the player was instantiated
\*   wrote   a handler of this run has called a setter
\*   late    what this run did after its cleanup
NewSession(kind, c, load, lst) ==
  [kind |-> kind, comp |-> c, load |-> load, player |-> "none", aw |-> 0,
   vready |-> FALSE, lst |-> lst, msg |-> FALSE, durOn |-> FALSE,
   cleaned |-> FALSE, pend |-> FALSE, inst |-> FALSE, wrote |-> FALSE,
   late |-> {}, nosrc |-> FALSE]

\* player.destroy(): the player stops calling back.
Destroy(ss, p) ==
  [i \in DOMAIN ss |->
     LET a == IF i = p /\ ss[i].player = "alive"
                THEN [ss[i] EXCEPT !.player = "destroyed"] ELSE ss[i]
         b == IF a.lst = p THEN [a EXCEPT !.lst = 0] ELSE a
     IN  IF b.aw = p /\ b.kind = "Vimeo" THEN [b EXCEPT !.durOn = FALSE] ELSE b]

\* player.off('ready'); player.off('timeupdate')
BunnyOff(ss, p) ==
  [i \in DOMAIN ss |-> IF ss[i].lst = p THEN [ss[i] EXCEPT !.lst = 0] ELSE ss[i]]

\* A handler of session s replaced state `old` by `new`.
Wrote(ss, s, old, new) ==
  [ss EXCEPT ![s].wrote = TRUE,
             ![s].late = IF ss[s].cleaned
                           THEN @ \cup {"write"} \cup
                                (IF new # old THEN {"change"} ELSE {})
                           ELSE @]

\* Session s did `what` (creating a player, attaching listeners).
Did(ss, s, what) ==
  [ss EXCEPT ![s].late = IF ss[s].cleaned THEN @ \cup what ELSE @]

\* The cleanup of session s's effect.  refNull: React has detached the
\* component's DOM refs (the component is being unmounted).
\* Result: the sessions and components after the cleanup.
Cleanup(ss, cs, s, refNull) ==
  LET c == ss[s].comp
      p == cs[c].playerRef
      k == ss[s].kind
      isPend == ss[s].load = "pending" \/ (ss[s].player = "alive" /\ ~ss[s].vready)
      isInst == IF k = "Video" THEN ss[s].lst = 1 /\ cs[c].media = "loaded"
                ELSE ss[s].player = "alive"
      ss0 == [ss EXCEPT ![s].cleaned = TRUE, ![s].pend = isPend,
                        ![s].inst = isInst]
      drop == IF cs[c].child = p THEN [cs EXCEPT ![c].child = 0] ELSE cs
  IN  CASE k \in {"GDrive", "None"} -> [ss |-> ss0, cs |-> cs]
        [] k = "Youtube" ->
             IF p # 0
               THEN [ss |-> [Destroy(ss0, p) EXCEPT ![s].msg = FALSE], cs |-> drop]
               ELSE [ss |-> ss0, cs |-> cs]
        [] k = "Vimeo" ->
             IF p # 0 THEN [ss |-> Destroy(ss0, p), cs |-> drop]
                      ELSE [ss |-> ss0, cs |-> cs]
        [] k = "Bunny" ->
             IF p # 0
               THEN [ss |-> BunnyOff(ss0, p), cs |-> [cs EXCEPT ![c].playerRef = 0]]
               ELSE [ss |-> ss0, cs |-> cs]
        [] OTHER ->
             IF refNull THEN [ss |-> ss0, cs |-> cs]
                        ELSE [ss |-> [ss0 EXCEPT ![s].lst = 0], cs |-> cs]

\* The setup of the main effect of a `kind` adapter in component c for
\* source u: the new session is appended.
Setup(ss, cs, kind, c, u, hlsNative) ==
  IF kind \in {"GDrive", "None"}
    THEN [ss |-> Append(ss, NewSession(kind, c, "none", 0)), cs |-> cs]
  ELSE IF kind = "Video"
    THEN IF IsHls(u) /\ ~hlsNative
           THEN [ss |-> Append(ss, NewSession(kind, c, "pending", 1)), cs |-> cs]
           ELSE [ss |-> Append(ss, NewSession(kind, c, "none", 1)),
                 cs |-> [cs EXCEPT ![c].media = "loaded", ![c].elPlaying = FALSE]]
  ELSE IF kind = "Bunny"
    THEN [ss |-> Append(ss, [NewSession(kind, c, "pending", 0)
                               EXCEPT !.nosrc = (u = "no_src")]),
          cs |-> cs]
    ELSE [ss |-> Append(ss, NewSession(kind, c, "pending", 0)), cs |-> cs]

\* The Player as first rendered: state cells at their initial values, the
\* adapter of the descriptor mounted and its effect set up.
Init ==
  /\ loaderRev = "symbol"
  /\ now = 0
  /\ tags = [l \in Libs |-> 0]
  /\ hooked = [l \in Libs |-> FALSE]
  /\ symbol = [l \in Libs |-> FALSE]
  /\ flag = [l \in Libs |-> FALSE]
  /\ calls = <<>>
  /\ playerRev \in PlayerRevs
  /\ nativeHls \in BOOLEAN
  /\ \E p \in Props : src = p[1] /\ cfg = p[2]
  /\ updates = 0
  /\ nev = 0
  /\ store = DefaultState
  /\ everPlaying = FALSE
  /\ vendor = [kind |-> "none"]
  /\ host = NewHost(1)
  /\ ui = NewUi("none")
  /\ LET k == AdapterOf(Classify(src, cfg).service)
         r == Setup(<<>>, <<NewComp(k)>>, k, 1, src, nativeHls)
     IN  sessions = r.ss /\ comps = r.cs

\* The host renders the Player with props (ns, nc); React commits: the
\* cleanup of the adapter effect whose dependencies changed, the setup of the
\* new one, then the Player's reset effect when its dependencies changed.
\* ns = src and nc = cfg is a render with an equal but fresh config object.
HostUpdate(ns, nc) ==
  /\ updates < MaxUpdates
  /\ LET od == Classify(src, cfg)
         nd == Classify(ns, nc)
         ok == AdapterOf(od.service)
         nk == AdapterOf(nd.service)
         cur == Len(sessions)
         c == sessions[cur].comp
         remount == ok # nk
         rerun == remount \/ EffectDeps(ok, od, cfg) # EffectDeps(nk, nd, nc)
         a == Cleanup(sessions, comps, cur, remount)
         cs1 == IF remount
                  THEN Append([a.cs EXCEPT ![c].mounted = FALSE], NewComp(nk))
                  ELSE a.cs
         b == Setup(a.ss, cs1, nk, IF remount THEN Len(cs1) ELSE c, ns, nativeHls)
     IN  /\ sessions' = IF rerun THEN b.ss ELSE sessions
         /\ comps' = IF rerun THEN b.cs ELSE comps
         /\ store' = IF ResetFires(playerRev, ns # src) THEN DefaultState ELSE store
         /\ everPlaying' = IF rerun THEN store'.state = "playing" ELSE everPlaying
         /\ LET cc == IF rerun THEN b.ss[Len(b.ss)].comp ELSE c
                 h0 == IF rerun \/ ResetFires(playerRev, ns # src)
                         THEN [host EXCEPT !.readyCalls = 0, !.applied = 0]
                         ELSE host
             IN  host' = PlayerEffects(store, store', h0, cc, HasVolume(nk))
  /\ src' = ns
  /\ cfg' = nc
  /\ updates' = updates + 1
  /\ UNCHANGED <<playerRev, nativeHls, nev>>
  /\ UNCHANGED <<loaderVars, vendor, ui>>

\* The payloads the vendors deliver in the lifecycle model.
Durations == {0, MaxTime}
Times == {MaxTime}
YtStates == {0, 1, 2, 3}
YtErrors == {"5", "100"}
Playable == {"absent", "true", "false"}
YtInfo(has, t, live) ==
  [has |-> has, currentTime |-> t, volume |-> 100, muted |-> TRUE,
   playbackRate |-> 200, isLive |-> live]
YtInfos == {YtInfo({"currentTime"}, t, FALSE) : t \in {0, MaxTime}}

\* Session s's listeners can be called: the player they are attached to is
\* alive and its frame is in the document (for Bunny: the <iframe> of the
\* mounted component has a src, so that Player.js runs in it).
CanFire(s) ==
  LET x == sessions[s]
      c == comps[x.comp]
  IN  /\ x.lst # 0
      /\ c.mounted
      /\ CASE x.kind = "Youtube" -> sessions[x.lst].player = "alive" /\ c.child = x.lst
           [] x.kind = "Vimeo" -> sessions[x.lst].player = "alive"
           [] x.kind = "Bunny" -> sessions[x.lst].player = "alive" /\ src # "no_src"
           [] OTHER -> c.media = "loaded"

\* Bunny's .then callback creates the Player.js player: not without a src
\* (`if (!(src && src.length > 1)) return`), and `new Player(null)` throws
\* when the <iframe> is gone.
\* (BunnyCreatesAlways: a callback without the test of src.)
BunnyCreatesAlways(x, up) == up
BunnyCreates(x, up) == up /\ ~x.nosrc

\* The promise of loadLibrary / waitForLibrary resolves and the adapter's
\* .then callback runs (for YouTube through YT.ready).
LoadResolve(s) ==
  /\ s \in DOMAIN sessions
  /\ sessions[s].load = "pending"
  /\ LET x == sessions[s]
         c == x.comp
         up == comps[c].mounted
         ss0 == [sessions EXCEPT ![s].load = "resolved"]
     IN  CASE x.kind = "Youtube" ->
                /\ sessions' = Did([ss0 EXCEPT ![s].player = "alive", ![s].lst = s,
                                               ![s].msg = TRUE],
                                   s, {"player", "listener"})
                /\ comps' = [comps EXCEPT ![c].playerRef = s,
                                          ![c].child = IF up THEN s ELSE 0]
           [] x.kind = "Vimeo" ->
                IF ~up THEN sessions' = ss0 /\ comps' = comps
                ELSE IF comps[c].child # 0
                  THEN /\ sessions' = [ss0 EXCEPT ![s].aw = comps[c].child]
                       /\ comps' = [comps EXCEPT ![c].playerRef = comps[c].child]
                  ELSE /\ sessions' = Did([ss0 EXCEPT ![s].player = "alive",
                                                      ![s].aw = s], s, {"player"})
                       /\ comps' = [comps EXCEPT ![c].playerRef = s, ![c].child = s]
           [] x.kind = "Bunny" ->
                IF ~BunnyCreates(x, up) THEN sessions' = ss0 /\ comps' = comps
                ELSE /\ sessions' = Did([ss0 EXCEPT ![s].player = "alive",
                                                    ![s].lst = s],
                                        s, {"player", "listener"})
                     /\ comps' = [comps EXCEPT ![c].playerRef = s]
           [] OTHER ->
                /\ sessions' = ss0
                /\ comps' = IF up THEN [comps EXCEPT ![c].media = "loaded",
                                                     ![c].elPlaying = FALSE]
                                  ELSE comps
  /\ UNCHANGED <<playerRev, nativeHls, src, cfg, updates, nev, store, everPlaying>>
  /\ UNCHANGED <<loaderVars, vendor, ui>>
  /\ host' = PlayerEffects(store, store', host,
                          sessions[Len(sessions)].comp,
                          HasVolume(sessions[Len(sessions)].kind))

\* The promise rejects: the .catch callback logs the error.
LoadReject(s) ==
  /\ s \in DOMAIN sessions
  /\ sessions[s].load = "pending"
  /\ sessions' = [sessions EXCEPT ![s].load = "rejected"]
  /\ UNCHANGED <<playerRev, nativeHls, src, cfg, updates, nev, store, comps,
                 everPlaying>>
  /\ UNCHANGED <<loaderVars, vendor, ui>>
  /\ host' = PlayerEffects(store, store', host,
                          sessions[Len(sessions)].comp,
                          HasVolume(sessions[Len(sessions)].kind))

\* The vendor reports ready: YouTube's onReady event, the promise of Vimeo's
\* ready(), Player.js's 'ready' event.
VendorReady(s, dur) ==
  /\ nev < MaxEvents
  /\ s \in DOMAIN sessions
  /\ ~sessions[s].vready
  /\ LET x == sessions[s]
         c == x.comp
     IN  CASE x.kind = "Youtube" ->
                /\ CanFire(s)
                /\ store' = YtOnReady(store, dur)
                /\ sessions' = Wrote([sessions EXCEPT ![s].vready = TRUE],
                                     s, store, store')
           [] x.kind = "Vimeo" ->
                /\ x.aw # 0
                /\ sessions[x.aw].player = "alive"
                /\ store' = VimeoOnReady(store)
                /\ sessions' =
                     Did(Wrote([sessions EXCEPT ![s].vready = TRUE,
                                                ![s].durOn = TRUE,
                                                ![s].lst = comps[c].playerRef],
                               s, store, store'), s, {"listener"})
           [] x.kind = "Bunny" ->
                /\ CanFire(s)
                /\ store' = BunnyOnReady(store)
                /\ sessions' = Wrote([sessions EXCEPT ![s].vready = TRUE,
                                                      ![s].durOn = TRUE],
                                     s, store, store')
           [] OTHER -> FALSE
  /\ nev' = nev + 1
  /\ everPlaying' = (everPlaying \/ store'.state = "playing")
  /\ UNCHANGED <<playerRev, nativeHls, src, cfg, updates, comps>>
  /\ UNCHANGED <<loaderVars, vendor, ui>>
  /\ host' = PlayerEffects(store, store', host,
                          sessions[Len(sessions)].comp,
                          HasVolume(sessions[Len(sessions)].kind))

\* The answer to getDuration arrives.
DurationArrives(s, dur) ==
  /\ nev < MaxEvents
  /\ s \in DOMAIN sessions
  /\ sessions[s].durOn
  /\ comps[sessions[s].comp].mounted
  /\ store' = IF sessions[s].kind = "Vimeo" THEN VimeoOnDuration(store, dur)
                                            ELSE BunnyOnDuration(store, dur)
  /\ sessions' = Wrote([sessions EXCEPT ![s].durOn = FALSE], s, store, store')
  /\ nev' = nev + 1
  /\ UNCHANGED <<playerRev, nativeHls, src, cfg, updates, comps, everPlaying>>
  /\ UNCHANGED <<loaderVars, vendor, ui>>
  /\ host' = PlayerEffects(store, store', host,
                          sessions[Len(sessions)].comp,
                          HasVolume(sessions[Len(sessions)].kind))

\* A YouTube player event reaches session s's listeners: onStateChange,
\* onError, or an infoDelivery message from the player's frame.
YtEvent(s) ==
  /\ nev < MaxEvents
  /\ s \in DOMAIN sessions
  /\ sessions[s].kind = "Youtube"
  /\ CanFire(s)
  /\ \/ \E d \in YtStates : sessions[s].vready /\ store' = YtOnStateChange(store, d)
     \/ \E e \in YtErrors, dur \in Durations, pl \in Playable :
          store' = YtOnError(store, e, dur, pl)
     \/ \E i \in YtInfos : sessions[s].msg /\ store' = YtOnMessage(store, i)
  /\ sessions' = Wrote(sessions, s, store, store')
  /\ nev' = nev + 1
  /\ everPlaying' = (everPlaying \/ store'.state = "playing")
  /\ UNCHANGED <<playerRev, nativeHls, src, cfg, updates, comps>>
  /\ UNCHANGED <<loaderVars, vendor, ui>>
  /\ host' = PlayerEffects(store, store', host,
                          sessions[Len(sessions)].comp,
                          HasVolume(sessions[Len(sessions)].kind))

\* A Vimeo player event reaches the listeners session s attached.
VimeoEvent(s) ==
  /\ nev < MaxEvents
  /\ s \in DOMAIN sessions
  /\ sessions[s].kind = "Vimeo"
  /\ CanFire(s)
  /\ \/ store' = VimeoOnPlay(store)
     \/ store' = VimeoOnPause(store)
     \/ store' = VimeoOnBuffering(store)
     \/ \E t \in Times : store' = VimeoOnTimeUpdate(store, t)
     \/ store' = VimeoOnError(store, "vimeo")
  /\ sessions' = Wrote(sessions, s, store, store')
  /\ nev' = nev + 1
  /\ everPlaying' = (everPlaying \/ store'.state = "playing")
  /\ UNCHANGED <<playerRev, nativeHls, src, cfg, updates, comps>>
  /\ UNCHANGED <<loaderVars, vendor, ui>>
  /\ host' = PlayerEffects(store, store', host,
                          sessions[Len(sessions)].comp,
                          HasVolume(sessions[Len(sessions)].kind))

\* Player.js delivers 'timeupdate' to the listener session s registered.
BunnyEvent(s) ==
  /\ nev < MaxEvents
  /\ s \in DOMAIN sessions
  /\ sessions[s].kind = "Bunny"
  /\ sessions[s].vready
  /\ CanFire(s)
  /\ \E t \in Times : store' = BunnyOnTimeUpdate(store, t)
  /\ sessions' = Wrote(sessions, s, store, store')
  /\ nev' = nev + 1
  /\ UNCHANGED <<playerRev, nativeHls, src, cfg, updates, comps, everPlaying>>
  /\ UNCHANGED <<loaderVars, vendor, ui>>
  /\ host' = PlayerEffects(store, store', host,
                          sessions[Len(sessions)].comp,
                          HasVolume(sessions[Len(sessions)].kind))

\* The <video> element of session s's component fires an event at the
\* listeners the session attached.
NativeEvent(s) ==
  /\ nev < MaxEvents
  /\ s \in DOMAIN sessions
  /\ sessions[s].kind = "Video"
  /\ CanFire(s)
  /\ LET c == sessions[s].comp IN
       \/ \E d \in Durations \ {0} :
            store' = VideoOnCanPlay(store, d) /\ comps' = comps
       \/ \E t \in Times : store' = VideoOnTimeUpdate(store, t) /\ comps' = comps
       \/ /\ store' = VideoOnPlay(store)
          /\ comps' = [comps EXCEPT ![c].elPlaying = TRUE]
       \/ /\ store' = VideoOnPause(store)
          /\ comps' = [comps EXCEPT ![c].elPlaying = FALSE]
       \/ store' = VideoOnWaiting(store) /\ comps' = comps
  /\ sessions' = Wrote(sessions, s, store, store')
  /\ nev' = nev + 1
  /\ everPlaying' = (everPlaying \/ store'.state = "playing")
  /\ UNCHANGED <<playerRev, nativeHls, src, cfg, updates>>
  /\ UNCHANGED <<loaderVars, vendor, ui>>
  /\ host' = PlayerEffects(store, store', host,
                          sessions[Len(sessions)].comp,
                          HasVolume(sessions[Len(sessions)].kind))

\* A <video> element that was playing when React removed it from the
\* document: the browser pauses it, firing timeupdate and pause at the
\* listeners still attached; the handlers read undefined through the ref.
DetachedEvent(s) ==
  /\ nev < MaxEvents
  /\ s \in DOMAIN sessions
  /\ sessions[s].kind = "Video"
  /\ sessions[s].lst = 1
  /\ LET c == sessions[s].comp IN
       /\ ~comps[c].mounted
       /\ comps[c].elPlaying
       /\ \/ store' = VideoOnTimeUpdate(store, Undef) /\ comps' = comps
          \/ /\ store' = VideoOnPause(store)
             /\ comps' = [comps EXCEPT ![c].elPlaying = FALSE]
  /\ sessions' = Wrote(sessions, s, store, store')
  /\ nev' = nev + 1
  /\ UNCHANGED <<playerRev, nativeHls, src, cfg, updates, everPlaying>>
  /\ UNCHANGED <<loaderVars, vendor, ui>>
  /\ host' = PlayerEffects(store, store', host,
                          sessions[Len(sessions)].comp,
                          HasVolume(sessions[Len(sessions)].kind))

Next ==
  \/ \E p \in Props : HostUpdate(p[1], p[2])
  \/ \E s \in 1..(MaxUpdates + 1) : LoadResolve(s)
  \/ \E s \in 1..(MaxUpdates + 1) : LoadReject(s)
  \/ \E s \in 1..(MaxUpdates + 1), d \in Durations : VendorReady(s, d)
  \/ \E s \in 1..(MaxUpdates + 1), d \in Durations : DurationArrives(s, d)
  \/ \E s \in 1..(MaxUpdates + 1) : YtEvent(s)
  \/ \E s \in 1..(MaxUpdates + 1) : VimeoEvent(s)
  \/ \E s \in 1..(MaxUpdates + 1) : BunnyEvent(s)
  \/ \E s \in 1..(MaxUpdates + 1) : NativeEvent(s)
  \/ \E s \in 1..(MaxUpdates + 1) : DetachedEvent(s)

Spec == Init /\ [][Next]_vars

\* --------------------------------------------------------- lifecycle claims

\* C1: whenever a change of the props re-mounts an adapter (a new run of the
\* adapter's effect starts, for a source change or a configuration change),
\* every PlaybackState field is at its default when the new run starts, that
\* is before any event of the newly mounted adapter is applied.
C1_ResetOnEveryRemount ==
  [][Len(sessions') > Len(sessions) => store' = DefaultState]_vars

\* C2: an adapter run that was cleaned up while its library load or the
\* vendor's ready was pending does nothing afterwards: it creates no player,
\* attaches no listener and calls no setter.
C2_NoLateEffect ==
  \A s \in DOMAIN sessions :
    (sessions[s].cleaned /\ sessions[s].pend) => sessions[s].late = {}

\* C3: an adapter run that was cleaned up with its player (for the native
\* adapter: its media) instantiated has all its listeners removed, and no
\* vendor event changes a PlaybackState field after the cleanup.
C3_NoEventAfterUnmount ==
  \A s \in DOMAIN sessions :
    (sessions[s].cleaned /\ sessions[s].inst) =>
      /\ sessions[s].lst = 0
      /\ ~sessions[s].msg
      /\ "change" \notin sessions[s].late

\* C7: an adapter run whose library load was rejected calls no setter, and
\* while it is the mounted run ready is false and error is null.
C7_RejectedLoadWritesNothing ==
  \A s \in DOMAIN sessions :
    sessions[s].load = "rejected" =>
      /\ ~sessions[s].wrote
      /\ s = Len(sessions) => (~store.ready /\ store.error = NoError)

C10_StartedOnlyAfterPlaying ==
  store.started => everPlaying

\* C24: during a Bunny mount volume, muted, playbackRate, playbackStatus,
\* started, live and error keep the values given by the reset: only ready,
\* duration and currentTime are written.
C24_BunnyWritesThreeFields ==
  sessions[Len(sessions)].kind = "Bunny" =>
    store = [DefaultState EXCEPT !.ready = store.ready,
                                 !.duration = store.duration,
                                 !.currentTime = store.currentTime]

\* C25: a Bunny mount whose src is missing creates no vendor player and
\* never becomes ready: ready is false for the whole mount.
C25_BunnyWithoutSrcNeverReady ==
  \A s \in DOMAIN sessions :
    (sessions[s].kind = "Bunny" /\ sessions[s].nosrc) =>
      /\ sessions[s].player = "none"
      /\ ~sessions[s].wrote
      /\ s = Len(sessions) => ~store.ready

\* The library arrived in a Bunny mount without src, after a mount that had
\* one, and ready is still false.
C25_Witness ==
  /\ Len(sessions) = 2
  /\ sessions[1].kind = "Bunny"
  /\ sessions[1].load = "resolved"
  /\ sessions[2].kind = "Bunny"
  /\ sessions[2].nosrc
  /\ sessions[2].load = "resolved"
  /\ ~store.ready

\* C34: in every reachable state duration # 0 implies ready, also across a
\* descriptor change while a duration fetch of the previous adapter is
\* still outstanding.
C34_DurationOnlyWhenReady ==
  store.duration # 0 => store.ready

\* C35: in a Vimeo mount no event handler is attached before the vendor
\* readiness promise has resolved, so every write of playbackStatus, started,
\* currentTime or error by a Vimeo event handler happens in a state where
\* ready is already true.
C35_VimeoWritesOnlyWhenReady ==
  [][\A s \in DOMAIN sessions :
       /\ (sessions[s].kind = "Vimeo" /\ sessions[s].lst # 0) => sessions[s].vready
       /\ VimeoEvent(s) => store.ready]_vars

\* C37: at any time at most one window-level message listener of the
\* YouTube adapter is registered, also when a descriptor change or an
\* unmount happens while an earlier library load is still pending.
C37_OneMessageListener ==
  Cardinality({s \in DOMAIN sessions : sessions[s].msg}) <= 1

\* C11: in every mount the onReady prop is called exactly once, when ready
\* first becomes true, whatever the order of the adapter's ready and play
\* signals, and never a second time before the next change of the props.
C11_OnReadyOncePerMount ==
  /\ host.readyCalls <= 1
  /\ store.ready => host.readyCalls = 1

\* C12: in one mount the default volume and the default mute are sent to the
\* adapter once, when ready first becomes true, and not again later in the
\* mount.
C12_DefaultsAppliedOnce ==
  host.applied <= 1

\* C13: after every change of the props, once the new adapter is mounted the
\* handle the host holds through the Player's ref is the handle of the
\* mounted adapter, also when the previous mount never became ready.
C13_HandleOfMountedAdapter ==
  host.handle = sessions[Len(sessions)].comp

C16_NoWriteAfterError ==
  [][(store.error # NoError /\ updates' = updates) => store' = store]_vars

\* ===========================================================================
\* Part 3: playback within one mount.  One adapter is mounted; the vendor
\* player is created, becomes ready, has a state, a position and a volume,
\* receives the adapter's commands through vendor.cmds and reports events
\* through vendor.q, both in order.  The host calls the handle's methods.
\* ===========================================================================

PlaybackKinds == {"Youtube", "Vimeo", "Video"}
\* The revisions of the Vimeo adapter: "seeked" listens to 'seeked' with
\* onPlay and its seekTo writes 'buffering'; "plain" does neither; "old" is
\* as "plain" but its handle reaches the player without optional chaining.
VimeoRevs == {"seeked", "plain", "old"}

\* What the vendor can say of the media's length, in ticks: 0 (a live stream
\* or nothing loaded), a length under one second, the full length.
MediaDurations == {0, TicksPerSecond - 1, MaxTime}
\* The volumes the host asks for (thousandths) and the positions it seeks
\* to: half a second and one second.
Volumes == {500, 1000}
SeekTimes == {1, TicksPerSecond}
\* The volumes set on the YouTube player's own controls, 0..100.
YtVolumes == {0, 7}
\* The 'error' events of the Vimeo player: a play request interrupted by a
\* pause, and a video that cannot be played.
VimeoErrors == {"PlayInterrupted", "NotPlayable"}
\* The methods of a handle.
Methods == {"play", "pause", "seekTo", "setVolume", "setMuted",
            "setPlaybackRate", "getTitle", "instance"}

Ev(e, a) == [ev |-> e, arg |-> a]
Cmd(c, a) == [c |-> c, arg |-> a]

\* vendor.phase: "none" before the adapter has created the vendor player,
\* "created" once `new Player(...)` has run (the <video> element exists from
\* the mount on), "ready" once the vendor has reported ready.
\* vendor.lastState before the player reported any state change.
NoState == -1

PlaybackInit ==
  /\ loaderRev = "symbol"
  /\ now = 0
  /\ tags = [l \in Libs |-> 0]
  /\ hooked = [l \in Libs |-> FALSE]
  /\ symbol = [l \in Libs |-> FALSE]
  /\ flag = [l \in Libs |-> FALSE]
  /\ calls = <<>>
  /\ playerRev = "video"
  /\ nativeHls = FALSE
  /\ src = "none"
  /\ cfg = [dc |-> FALSE, bunny |-> FALSE]
  /\ updates = 0
  /\ nev = 0
  /\ sessions = <<>>
  /\ comps = <<>>
  /\ everPlaying = FALSE
  /\ host = NewHost(1)
  /\ ui = NewUi("none")
  /\ store = DefaultState
  /\ \E k \in PlaybackKinds, r \in VimeoRevs, d \in MediaDurations,
        pl \in Playable :
       /\ k # "Vimeo" => r = "plain"
       /\ k = "Video" => d = MaxTime
       /\ k # "Youtube" => pl = "absent"
       /\ vendor = [kind |-> k, rev |-> r,
                    phase |-> IF k = "Video" THEN "created" ELSE "none",
                    vstate |-> "paused", vtime |-> 0, dur |-> d,
                    playable |-> pl,
                    vol |-> IF k = "Youtube" THEN 100 ELSE 1000,
                    req |-> Undef, lastErr |-> "none",
                    q |-> <<>>, cmds |-> <<>>,
                    wasBuffering |-> FALSE, lastState |-> NoState,
                    wasPlaying |-> FALSE,
                    ended |-> FALSE, lib |-> "none", stalled |-> FALSE,
                    resumed |-> "none", byCmd |-> FALSE]

\* What a call of method m of the handle can do, "throws" or "ok", by the
\* adapter and the state of its playerRef.
\*   YouTube, current Vimeo: playerRef.current?.m(...) is skipped on null.
\*     Whether the YT.Player object already has its methods before it
\*     reported ready is the vendor's matter: both outcomes.
\*   old Vimeo: playerRef.current.m(...) throws on null; getTitle is async,
\*     so its TypeError rejects the promise it returns.
\*   native: every method tests videoRef.current or uses ?. .
CallOutcomes(v, m) ==
  CASE v.kind = "Vimeo" /\ v.rev = "old" /\ v.phase = "none" ->
         IF m \in {"getTitle", "instance"} THEN {"ok"} ELSE {"throws"}
    [] v.kind = "Youtube" /\ v.phase = "created" ->
         IF m \in {"getTitle", "instance"} THEN {"ok"} ELSE {"ok", "throws"}
    [] OTHER -> {"ok"}

Threw(h, o) == IF o = "throws" THEN [h EXCEPT !.threw = TRUE] ELSE h

\* The YouTube handle's setVolume sends volume * 100; x is in thousandths.
\* (YtSetVolumeRaw: a handle that sends the volume as it is.)
YtSetVolumeRaw(x) == x \div 1000
YtSetVolume(x) == (x * 100) \div 1000

\* The vendor after handle.setVolume(x) ran without throwing.  The element
\* fires volumechange when its volume changed.
HandleSetVolume(v, x) ==
  CASE v.kind = "Video" ->
         IF v.vol # x
           THEN [v EXCEPT !.vol = x, !.q = Append(@, Ev("volumechange", 0))]
           ELSE v
    [] v.phase = "none" -> v
    [] v.kind = "Youtube" ->
         [v EXCEPT !.cmds = Append(@, Cmd("setVolume", YtSetVolume(x)))]
    [] OTHER -> [v EXCEPT !.cmds = Append(@, Cmd("setVolume", x))]

\* The vendor after the Player's ready effect, which runs after a render in
\* which ready or started changed and, with ready true, calls
\* setVolume(default) and setMuted(false) on the handle.  The player is
\* not muted, so setMuted(false) changes nothing and is not reported.
ReadyEffect(old, new, v) ==
  IF (old.ready # new.ready \/ old.started # new.started) /\ new.ready
    THEN HandleSetVolume(v, DefaultVolume)
    ELSE v

\* The <video> element's play() and pause().  play() on a paused element
\* fires play and playing, pause() on a playing one timeupdate and pause;
\* otherwise they change nothing and fire nothing.
ElementPlay(v) ==
  IF v.vstate = "paused"
    THEN [v EXCEPT !.vstate = "playing",
                   !.q = @ \o <<Ev("play", 0), Ev("playing", 0)>>]
    ELSE v
ElementPause(v) ==
  IF v.vstate = "playing"
    THEN [v EXCEPT !.vstate = "paused",
                   !.q = @ \o <<Ev("timeupdate", 0), Ev("pause", 0)>>]
    ELSE v

\* The end of onCanPlay: the element's autoplay is false (loadVideo sets it,
\* the libraries are started without autoplay), so an element that is not
\* paused is paused.
AutoplayGuard(v) == ElementPause(v)

\* onPlaying: play() again if a play event was the last of play and pause.
\* (VideoOnPlayingIdle: an onPlaying that does nothing.)
VideoOnPlayingIdle(v) == v
VideoOnPlaying(v) == IF v.wasPlaying THEN ElementPlay(v) ELSE v

\* A command of the host ends the wait for a stall to resolve on its own.
Commanded(v) ==
  IF v.resumed \in {"no", "yes"} THEN [v EXCEPT !.resumed = "cmd"] ELSE v

\* The wait that began when a stall resolved ends when the store's status
\* is playing again.
Returned(ns, v) ==
  IF v.resumed = "yes" /\ ns.state = "playing"
    THEN [v EXCEPT !.resumed = "done"] ELSE v

\* The element dispatches its queued events before the media timeline moves
\* again.
Settled == vendor.kind = "Video" => vendor.q = <<>>

\* The end of every step of the playback model: the new store, the vendor
\* after the ready effect, the host after the Player's effects.
Commit(ns, nv, o) ==
  /\ store' = ns
  /\ vendor' = ReadyEffect(store, ns, nv)
  /\ host' = Threw(PlayerEffects(store, ns, host, 1, HasVolume(vendor.kind)), o)
  /\ UNCHANGED <<loaderVars, playerRev, nativeHls, src, cfg, updates, sessions,
                 comps, everPlaying, ui>>

\* loadLibrary resolved and the adapter created the vendor player.
Create ==
  /\ vendor.kind # "none"
  /\ vendor.phase = "none"
  /\ nev' = nev
  /\ Commit(store, [vendor EXCEPT !.phase = "created"], "ok")

\* The vendor reports ready (the element: canplay).  YouTube's onReady reads
\* the duration at once, Vimeo's asks for it and gets the answer later.
Ready ==
  /\ vendor.kind # "none"
  /\ vendor.phase = "created"
  /\ nev' = nev
  /\ LET v == [vendor EXCEPT !.phase = "ready"]
     IN  CASE vendor.kind = "Youtube" ->
                Commit(YtOnReady(store, vendor.dur), v, "ok")
           [] vendor.kind = "Vimeo" ->
                Commit(VimeoOnReady(store),
                       [v EXCEPT !.q = Append(@, Ev("duration", vendor.dur))],
                       "ok")
           [] OTHER ->
                Commit(VideoOnCanPlay(store, vendor.dur), AutoplayGuard(v), "ok")

\* What the YouTube handle's play() and pause() write before they call the
\* player; wasBuffering is wasBuffering.current.
\* (YtPauseAlways: a pause() that writes 'paused' whatever was reported.)
YtPlay(st, wasBuffering) ==
  IF wasBuffering THEN [st EXCEPT !.state = "buffering"] ELSE st
YtPauseAlways(st, wasBuffering) == [st EXCEPT !.state = "paused"]
YtPause(st, wasBuffering) ==
  IF wasBuffering THEN [st EXCEPT !.state = "paused"] ELSE st

\* The handle's play(): YouTube and Vimeo post a command to the frame, the
\* native adapter calls the element.  YouTube's play() first writes
\* 'buffering' if the last state reported was buffering.
Play ==
  /\ vendor.kind # "none"
  /\ ~vendor.ended
  /\ nev < MaxEvents
  /\ nev' = nev + 1
  /\ \E o \in CallOutcomes(vendor, "play") :
       LET ns == IF vendor.kind = "Youtube"
                   THEN YtPlay(store, vendor.wasBuffering) ELSE store
           nv == CASE o = "throws" \/ vendor.phase = "none" -> vendor
                   [] vendor.kind = "Video" ->
                        [Commanded(ElementPlay(vendor)) EXCEPT !.byCmd = TRUE]
                   [] OTHER -> [vendor EXCEPT !.cmds = Append(@, Cmd("play", 0))]
       IN  Commit(ns, nv, o)

\* The handle's pause().
Pause ==
  /\ vendor.kind # "none"
  /\ ~vendor.ended
  /\ nev < MaxEvents
  /\ nev' = nev + 1
  /\ \E o \in CallOutcomes(vendor, "pause") :
       LET ns == IF vendor.kind = "Youtube"
                   THEN YtPause(store, vendor.wasBuffering) ELSE store
           nv == CASE o = "throws" \/ vendor.phase = "none" -> vendor
                   [] vendor.kind = "Video" ->
                        [Commanded(ElementPause(vendor)) EXCEPT !.byCmd = FALSE]
                   [] OTHER -> [vendor EXCEPT !.cmds = Append(@, Cmd("pause", 0))]
       IN  Commit(ns, nv, o)

\* The handle's setVolume(x); vendor.req remembers the last x asked for.
SetVolume(x) ==
  /\ vendor.kind # "none"
  /\ ~vendor.ended
  /\ nev < MaxEvents
  /\ nev' = nev + 1
  /\ \E o \in CallOutcomes(vendor, "setVolume") :
       Commit(store,
              IF o = "throws" THEN vendor
                ELSE [HandleSetVolume(vendor, x) EXCEPT !.req = x],
              o)

\* The handle's seekTo(t).  YouTube and the native adapter write currentTime
\* first; the "seeked" Vimeo also writes 'buffering'; the other Vimeo
\* revisions only call the player.  The element reports the new position.
SeekTo(t) ==
  /\ vendor.kind # "none"
  /\ ~vendor.ended
  /\ t <= vendor.dur
  /\ nev < MaxEvents
  /\ nev' = nev + 1
  /\ \E o \in CallOutcomes(vendor, "seekTo") :
       LET ns == CASE vendor.kind = "Youtube" -> [store EXCEPT !.currentTime = t]
                   [] vendor.kind = "Vimeo" /\ vendor.rev = "seeked" ->
                        [store EXCEPT !.state = "buffering", !.currentTime = t]
                   [] vendor.kind = "Video" -> [store EXCEPT !.currentTime = t]
                   [] OTHER -> store
           nv == CASE o = "throws" \/ vendor.phase = "none" -> vendor
                   [] vendor.kind = "Youtube" ->
                        [vendor EXCEPT !.cmds = Append(@, Cmd("seek", t))]
                   [] vendor.kind = "Vimeo" ->
                        [vendor EXCEPT !.cmds = Append(@, Cmd("setCurrentTime", t))]
                   [] OTHER ->
                        [Commanded(vendor) EXCEPT !.vtime = t,
                                       !.q = Append(@, Ev("timeupdate", 0))]
       IN  Commit(ns, nv, o)

\* The handle's setMuted(false), setPlaybackRate(1), getTitle() and
\* instance(): they write nothing, and the player, which is neither muted
\* nor at another rate, reports nothing.
Call(m) ==
  /\ vendor.kind # "none"
  /\ m \in {"setMuted", "setPlaybackRate", "getTitle", "instance"}
  /\ nev < MaxEvents
  /\ nev' = nev + 1
  /\ \E o \in CallOutcomes(vendor, m) : Commit(store, vendor, o)

\* The vendor player reports an error.  YouTube's onError is registered with
\* the player, Vimeo's 'error' listener after ready.  vendor.lastErr
\* remembers the last error reported.
VendorError ==
  /\ nev < MaxEvents
  /\ nev' = nev + 1
  /\ \/ /\ vendor.kind = "Youtube"
        /\ vendor.phase # "none"
        /\ \E e \in YtErrors :
             Commit(store, [vendor EXCEPT !.q = Append(@, Ev("error", e)),
                                          !.lastErr = e], "ok")
     \/ /\ vendor.kind = "Vimeo"
        /\ vendor.phase = "ready"
        /\ \E e \in VimeoErrors :
             Commit(store, [vendor EXCEPT !.q = Append(@, Ev("error", e)),
                                          !.lastErr = e], "ok")

\* The viewer changes the volume on the YouTube player's own controls and
\* the frame reports it.
VendorVolume(a) ==
  /\ vendor.kind = "Youtube"
  /\ vendor.phase = "ready"
  /\ nev < MaxEvents
  /\ nev' = nev + 1
  /\ Commit(store,
            [vendor EXCEPT !.vol = a, !.q = Append(@, Ev("infoVolume", a))],
            "ok")

\* What a 'seeked' or 'bufferend' event of the model carries: 1 if the
\* player was playing when the seek or the buffering began, else 0.
WasPlaying(v) == IF v.vstate = "playing" THEN 1 ELSE 0

\* The player loads data, playing or paused (after a seek, on a slow
\* network).  Vimeo reports bufferstart and bufferend; YouTube reports
\* state 3 and then the state it returns to, 1 or 2.
VendorBuffer ==
  /\ vendor.kind \in {"Vimeo", "Youtube"}
  /\ vendor.phase = "ready"
  /\ ~vendor.ended
  /\ nev < MaxEvents
  /\ nev' = nev + 1
  /\ Commit(store,
            [vendor EXCEPT !.q = @ \o
               (IF vendor.kind = "Vimeo"
                  THEN <<Ev("bufferstart", 0), Ev("bufferend", WasPlaying(vendor))>>
                  ELSE <<Ev("state", 3), Ev("state", 2 - WasPlaying(vendor))>>)],
            "ok")

\* The frame of a YouTube or Vimeo player takes the next command; the Vimeo
\* player keeps the commands until it is ready.
\*   YouTube seekTo: the position moves; a player that is not paused plays.
\*   Vimeo setCurrentTime: the position moves, 'seeked' and 'timeupdate' are
\*   reported; after onEnded's setCurrentTime(0) the promise resolves and
\*   pause() is posted.
\*   setVolume: the volume changes and is reported.
VendorCommand ==
  /\ vendor.kind \in {"Youtube", "Vimeo"}
  /\ vendor.phase = "ready"
  /\ vendor.cmds # <<>>
  /\ nev' = nev
  /\ LET c == Head(vendor.cmds)
         v == [vendor EXCEPT !.cmds = Tail(@)]
         yt == vendor.kind = "Youtube"
         nv ==
           CASE c.c = "play" ->
                  IF v.vstate = "paused"
                    THEN [v EXCEPT !.vstate = "playing",
                            !.q = Append(@, IF yt THEN Ev("state", 1) ELSE Ev("play", 0))]
                    ELSE v
             [] c.c = "pause" ->
                  IF v.vstate = "playing"
                    THEN [v EXCEPT !.vstate = "paused",
                            !.q = Append(@, IF yt THEN Ev("state", 2) ELSE Ev("pause", 0))]
                    ELSE v
             [] c.c = "seek" ->
                  IF v.vstate = "paused"
                    THEN [v EXCEPT !.vtime = c.arg, !.q = Append(@, Ev("info", c.arg))]
                    ELSE [v EXCEPT !.vtime = c.arg, !.vstate = "playing",
                            !.q = @ \o <<Ev("info", c.arg), Ev("state", 1)>>]
             [] c.c = "setVolume" ->
                  [v EXCEPT !.vol = c.arg,
                     !.q = Append(@, IF yt THEN Ev("infoVolume", c.arg)
                                           ELSE Ev("volumechange", c.arg))]
             [] c.c = "setCurrentTime" ->
                  [v EXCEPT !.vtime = c.arg,
                     !.q = @ \o <<Ev("seeked", WasPlaying(v)),
                                  Ev("timeupdate", c.arg)>>]
             [] OTHER ->
                  [v EXCEPT !.vtime = c.arg,
                     !.q = @ \o <<Ev("seeked", WasPlaying(v)),
                                  Ev("timeupdate", c.arg)>>,
                     !.cmds = Append(@, Cmd("pause", 0))]
     IN  Commit(store, nv, "ok")

\* Playback advances by one tick and the vendor reports the position.
VendorTick ==
  /\ vendor.kind # "none"
  /\ vendor.vstate = "playing"
  /\ vendor.vtime < vendor.dur
  /\ ~vendor.stalled
  /\ Settled
  /\ nev' = nev
  /\ Commit(store,
            [vendor EXCEPT !.vtime = @ + 1,
               !.q = Append(@, IF vendor.kind = "Youtube"
                                 THEN Ev("info", vendor.vtime + 1)
                                 ELSE Ev("timeupdate", vendor.vtime + 1))],
            "ok")

\* Playback reaches the end of the stream.  YouTube reports state 0.  The
\* <video> element pauses itself and fires timeupdate, pause and ended.
\* Vimeo reports 'ended', after a 'pause' or without one.
VendorEnd ==
  /\ vendor.kind # "none"
  /\ vendor.vstate = "playing"
  /\ vendor.dur > 0
  /\ vendor.vtime = vendor.dur
  /\ ~vendor.stalled
  /\ Settled
  /\ nev' = nev
  /\ \/ /\ vendor.kind = "Youtube"
        /\ Commit(store,
                  [vendor EXCEPT !.vstate = "ended", !.ended = TRUE,
                     !.q = Append(@, Ev("state", 0))], "ok")
     \/ /\ vendor.kind = "Video"
        /\ Commit(store,
                  [vendor EXCEPT !.vstate = "paused", !.ended = TRUE,
                     !.q = @ \o <<Ev("timeupdate", vendor.dur), Ev("pause", 0),
                                  Ev("ended", 0)>>], "ok")
     \/ /\ vendor.kind = "Vimeo"
        /\ \/ Commit(store,
                     [vendor EXCEPT !.vstate = "paused", !.ended = TRUE,
                        !.q = @ \o <<Ev("pause", 0), Ev("ended", 0)>>], "ok")
           \/ Commit(store,
                     [vendor EXCEPT !.vstate = "paused", !.ended = TRUE,
                        !.q = Append(@, Ev("ended", 0))], "ok")

\* The adapter's listener for the next reported event runs.
\* The native handlers read the element as it is when they run.  YouTube's
\* onError asks the player for its duration and video data.
Deliver ==
  /\ vendor.kind # "none"
  /\ vendor.q # <<>>
  /\ nev' = nev
  /\ LET e == Head(vendor.q)
         v == [vendor EXCEPT !.q = Tail(@)]
     IN  CASE vendor.kind = "Youtube" ->
                CASE e.ev = "state" ->
                       Commit(YtOnStateChange(store, e.arg),
                              [v EXCEPT !.wasBuffering = (e.arg = 3),
                                 !.lastState = e.arg,
                                 !.cmds = IF e.arg = 0
                                            THEN @ \o <<Cmd("seek", 0), Cmd("pause", 0)>>
                                            ELSE @],
                              "ok")
                  [] e.ev = "error" ->
                       Commit(YtOnError(store, e.arg, vendor.dur, vendor.playable),
                              v, "ok")
                  [] e.ev = "infoVolume" ->
                       Commit(YtOnMessage(store,
                                [has |-> {"volume", "muted"}, currentTime |-> 0,
                                 volume |-> e.arg, muted |-> FALSE,
                                 playbackRate |-> DefaultRate, isLive |-> FALSE]),
                              v, "ok")
                  [] OTHER ->
                       Commit(YtOnMessage(store, YtInfo({"currentTime"}, e.arg, FALSE)),
                              v, "ok")
           [] vendor.kind = "Vimeo" ->
                Commit(CASE e.ev = "play" -> VimeoOnPlay(store)
                         [] e.ev = "pause" -> VimeoOnPause(store)
                         [] e.ev = "timeupdate" -> VimeoOnTimeUpdate(store, e.arg)
                         [] e.ev = "duration" -> VimeoOnDuration(store, e.arg)
                         [] e.ev = "error" -> VimeoOnError(store, e.arg)
                         [] e.ev = "volumechange" ->
                              VimeoOnVolumeChange(store, FALSE, e.arg)
                         [] e.ev = "seeked" /\ vendor.rev = "seeked" -> VimeoOnPlay(store)
                         [] e.ev = "bufferstart" -> VimeoOnBuffering(store)
                         [] e.ev = "bufferend" -> VimeoOnPlay(store)
                         [] OTHER -> store,
                       IF e.ev = "ended"
                         THEN [v EXCEPT !.cmds = Append(@, Cmd("seekThenPause", 0))]
                         ELSE v,
                       "ok")
           [] OTHER ->
                LET ns == CASE e.ev = "play" -> VideoOnPlay(store)
                            [] e.ev = "pause" -> VideoOnPause(store)
                            [] e.ev = "timeupdate" ->
                                 VideoOnTimeUpdate(store, vendor.vtime)
                            [] e.ev = "volumechange" ->
                                 VideoOnVolumeChange(store, FALSE, vendor.vol)
                            [] e.ev = "waiting" -> VideoOnWaiting(store)
                            [] e.ev = "canplay" -> VideoOnCanPlay(store, vendor.dur)
                            [] OTHER -> store
                    nv == CASE e.ev = "play" -> [v EXCEPT !.wasPlaying = TRUE]
                            [] e.ev = "pause" -> [v EXCEPT !.wasPlaying = FALSE]
                            [] e.ev = "ended" ->
                                 [v EXCEPT !.vtime = 0,
                                           !.q = Append(@, Ev("timeupdate", 0))]
                            [] e.ev = "canplay" -> AutoplayGuard(v)
                            [] e.ev = "playing" -> VideoOnPlaying(v)
                            [] OTHER -> v
                IN  Commit(ns, Returned(ns, nv), "ok")

\* The element runs out of data while it plays and fires waiting.
VendorStall ==
  /\ vendor.kind = "Video"
  /\ vendor.phase = "ready"
  /\ vendor.vstate = "playing"
  /\ ~vendor.stalled
  /\ Settled
  /\ nev < MaxEvents
  /\ nev' = nev + 1
  /\ Commit(store,
            [vendor EXCEPT !.stalled = TRUE, !.resumed = "no",
                           !.q = Append(@, Ev("waiting", 0))],
            "ok")

\* The data arrives: the element fires canplay and, if it is not paused,
\* playing.
VendorResume ==
  /\ vendor.kind = "Video"
  /\ vendor.stalled
  /\ nev' = nev
  /\ Commit(store,
            [vendor EXCEPT !.stalled = FALSE,
               !.resumed = IF @ = "no" THEN "yes" ELSE @,
               !.q = @ \o (IF vendor.vstate = "playing"
                             THEN <<Ev("canplay", 0), Ev("playing", 0)>>
                             ELSE <<Ev("canplay", 0)>>)],
            "ok")

PlaybackNext ==
  \/ Create
  \/ Ready
  \/ Play
  \/ Pause
  \/ \E x \in Volumes : SetVolume(x)
  \/ \E t \in SeekTimes : SeekTo(t)
  \/ \E m \in Methods : Call(m)
  \/ VendorError
  \/ \E a \in YtVolumes : VendorVolume(a)
  \/ VendorBuffer
  \/ VendorCommand
  \/ VendorTick
  \/ VendorEnd
  \/ Deliver
  \/ VendorStall
  \/ VendorResume

PlaybackSpec == PlaybackInit /\ [][PlaybackNext]_vars

\* ---------------------------------------------------------- playback claims

\* C8: once an end of stream is fully processed (the vendor has taken every
\* command the adapter posted and the adapter has handled every event the
\* vendor reported), the store holds currentTime = 0 and playbackStatus
\* 'paused'.
C8_EndOfStreamRewinds ==
  (vendor.kind # "none" /\ vendor.ended /\ vendor.q = <<>> /\ vendor.cmds = <<>>)
    => (store.currentTime = 0 /\ store.state = "paused")

\* C14: every method of every adapter's handle (play, pause, seekTo,
\* setVolume, setMuted, setPlaybackRate, getTitle, instance) can be called
\* before the vendor player exists or before it is ready without throwing.
C14_HandleNeverThrows ==
  ~host.threw

\* C17: when the YouTube adapter handles a vendor error, a code 5 reported
\* while the player gives a duration of at least one second and the video
\* data does not say isPlayable = false leaves error as it was (null stays
\* null); every other error event sets error to what was reported.
C17_YtErrorClassified ==
  [][(/\ vendor.kind = "Youtube"
      /\ vendor.q # <<>>
      /\ vendor'.q = Tail(vendor.q)
      /\ Head(vendor.q).ev = "error")
       => IF /\ Head(vendor.q).arg = "5"
             /\ vendor.dur >= TicksPerSecond
             /\ vendor.playable # "false"
            THEN store'.error = store.error
            ELSE store'.error = Head(vendor.q).arg]_vars

\* C17 witness: a code 5 was reported and handled for a video of at least
\* one second without isPlayable, and error is null.
C17_Witness ==
  /\ vendor.kind = "Youtube"
  /\ vendor.lastErr = "5"
  /\ vendor.q = <<>>
  /\ vendor.dur >= TicksPerSecond
  /\ vendor.playable = "absent"
  /\ store.ready
  /\ store.error = NoError

\* C18: a transient vendor error (the vendor reporting a play request that
\* was interrupted) never sets error.
C18_TransientErrorNotStored ==
  store.error # "PlayInterrupted"

C20_VimeoZeroDurationIsLive ==
  (/\ vendor.kind = "Vimeo"
   /\ store.ready
   /\ vendor.dur = 0
   /\ vendor.q = <<>>)
    => (store.live /\ store.duration = 0)

\* ===========================================================================
\* Part 4: the Controls.  A YouTube adapter is mounted; its onReady and
\* onMessage handlers write the store, the viewer presses keys and moves the
\* seek bar, and the Controls call the adapter's handle.  Times are in ticks.
\* ===========================================================================

\* The host passes onTimeUpdate, which the Player calls once when it mounts.
\* The revisions of the Controls: "live" reads live from the context and
\* tests it in the seek bar, "old" does not know live.
ControlsRevs == {"live", "old"}

Seconds(n) == n * TicksPerSecond

\* What getDuration() gives at onReady and the positions infoDelivery
\* reports, in ticks.
CtlDurations == {0, Seconds(5), Seconds(30)}
CtlTimes == {Seconds(1), Seconds(1) + 1, Seconds(12), Seconds(25)}
\* The keys the Controls handle and the values the seek bar is moved to.
ControlKeys == {"Space", "ArrowRight", "ArrowLeft", "ArrowUp", "ArrowDown", "KeyM"}
BarValues == {0, Seconds(1), Seconds(3)}

\* The YouTube URLs and the no-cookie option as the host may give it: not
\* at all, true or false.
YtSources == {"yt_a", "yt_shorts"}
NoCookieOptions == {"absent", "on", "off"}

\* The host of the embed.  In the Player whose descriptor carries it
\* (playerRev "src") it is computed from config.youtube.noCookie, which is
\* undefined when absent; in the adapter it is computed from the service
\* and the noCookie prop, which is true when absent.
\* (YtHostOfService: the adapter that knows the service only.)
DescriptorHost(u, opt) ==
  IF IsShorts(u) \/ opt # "on"
    THEN "https://www.youtube.com" ELSE "https://www.youtube-nocookie.com"
YtHostOfService(service, opt) ==
  IF service = "youtube-shorts"
    THEN "https://www.youtube.com" ELSE "https://www.youtube-nocookie.com"
YtHost(service, opt) ==
  LET noCookie == IF opt = "absent" THEN TRUE ELSE opt = "on"
  IN  IF service = "youtube-shorts" \/ ~noCookie
        THEN "https://www.youtube.com" ELSE "https://www.youtube-nocookie.com"

ControlsInit ==
  /\ loaderRev = "symbol"
  /\ now = 0
  /\ tags = [l \in Libs |-> 0]
  /\ hooked = [l \in Libs |-> FALSE]
  /\ symbol = [l \in Libs |-> FALSE]
  /\ flag = [l \in Libs |-> FALSE]
  /\ calls = <<>>
  /\ playerRev \in {"video", "src"}
  /\ nativeHls = FALSE
  /\ src \in YtSources
  /\ \E o \in NoCookieOptions : cfg = [dc |-> FALSE, bunny |-> FALSE, noCookie |-> o]
  /\ updates = 0
  /\ nev = 0
  /\ sessions = <<>>
  /\ comps = <<>>
  /\ everPlaying = FALSE
  /\ host = [NewHost(1) EXCEPT !.onTimeUpdate = TRUE, !.timeCalls = 1]
  /\ vendor = [kind |-> "Youtube", phase |-> "none", host |-> "none",
               msg |-> <<"none", "none">>]
  /\ store = DefaultState
  /\ \E r \in ControlsRevs : ui = NewUi(r)

\* The end of every step of the Controls model.
CtlCommit(ns) ==
  /\ store' = ns
  /\ host' = PlayerEffects(store, ns, host, 1, TRUE)
  /\ UNCHANGED <<loaderVars, playerRev, nativeHls, src, cfg, updates, nev,
                 sessions, comps, everPlaying>>

\* loadLibrary('YT') resolved: the adapter creates the YT.Player with its
\* host.
CtlCreate ==
  /\ vendor.phase = "none"
  /\ vendor' = [vendor EXCEPT
       !.phase = "created",
       !.host = IF playerRev = "src"
                  THEN DescriptorHost(src, cfg.noCookie)
                  ELSE YtHost(Classify(src, cfg).service, cfg.noCookie)]
  /\ ui' = ui
  /\ CtlCommit(store)

\* The YouTube player reports ready.
CtlReady(dur) ==
  /\ vendor.phase = "created"
  /\ vendor' = [vendor EXCEPT !.phase = "ready"]
  /\ ui' = ui
  /\ CtlCommit(YtOnReady(store, dur))

\* Where a window message comes from, the player's frame or another
\* window, and its data.event.
MsgSources == {"embed", "other"}
MsgEvents == {"infoDelivery", "onStateChange"}

\* The window receives a message whose info holds the position and
\* videoData.isLive: the player's frame posts once the player is ready,
\* another window at any time after the listener was added.  vendor.msg
\* remembers the source and event of the last message.
CtlMessage(from, ev, t, live) ==
  /\ IF from = "embed" THEN vendor.phase = "ready" ELSE vendor.phase # "none"
  /\ ui' = ui
  /\ vendor' = [vendor EXCEPT !.msg = <<from, ev>>]
  /\ CtlCommit(YtOnWindowMessage(store, from = "embed", ev,
                                 YtInfo({"currentTime", "isLive"}, t, live)))

\* The command a key makes the Controls issue on state st: the method of
\* the handle and its argument.  Volumes are in thousandths.
KeyCommand(st, code) ==
  CASE code = "Space" ->
         [cmd |-> IF st.state = "paused" THEN "play" ELSE "pause", arg |-> 0]
    [] code = "ArrowRight" ->
         [cmd |-> "seekTo",
          arg |-> IF st.currentTime + Seconds(10) >= st.duration
                    THEN st.duration ELSE st.currentTime + Seconds(10)]
    [] code = "ArrowLeft" ->
         [cmd |-> "seekTo",
          arg |-> IF st.currentTime - Seconds(10) <= 0
                    THEN 0 ELSE st.currentTime - Seconds(10)]
    [] code = "ArrowUp" ->
         [cmd |-> "setVolume",
          arg |-> IF st.volume >= 900 THEN 1000 ELSE st.volume + 100]
    [] code = "ArrowDown" ->
         [cmd |-> "setVolume",
          arg |-> IF st.volume <= 100 THEN 0 ELSE st.volume - 100]
    [] OTHER -> [cmd |-> "setMuted", arg |-> IF st.muted THEN 0 ELSE 1]

\* The Controls call method c.cmd of the YouTube handle: seekTo writes
\* currentTime before it posts to the player, the others only post.
Issue(c, by) ==
  /\ ui' = [ui EXCEPT !.cmd = c.cmd, !.arg = c.arg, !.by = by,
                      !.live = store.live, !.dur = store.duration,
                      !.n = @ + 1]
  /\ vendor' = vendor
  /\ CtlCommit(IF c.cmd = "seekTo" THEN [store EXCEPT !.currentTime = c.arg]
                                   ELSE store)

\* onKeydown: the shortcuts act once currentTime is at least one second.
KeyDown(code) ==
  /\ ui.n < MaxInputs
  /\ IF store.currentTime >= Seconds(1)
       THEN Issue(KeyCommand(store, code), "key")
       ELSE /\ ui' = [ui EXCEPT !.n = @ + 1]
            /\ vendor' = vendor
            /\ CtlCommit(store)

\* The seek bar's onValueChange: the slider goes from 0 to max.
SeekBar(v) ==
  /\ ui.n < MaxInputs
  /\ v <= (IF ui.rev = "live" /\ store.live THEN Seconds(1) ELSE store.duration)
  /\ IF ui.rev = "live" /\ store.live
       THEN /\ ui' = [ui EXCEPT !.n = @ + 1]
            /\ vendor' = vendor
            /\ CtlCommit(store)
       ELSE Issue([cmd |-> "seekTo", arg |-> v], "bar")

ControlsNext ==
  \/ CtlCreate
  \/ \E d \in CtlDurations : CtlReady(d)
  \/ \E t \in CtlTimes, l \in BOOLEAN : CtlMessage("embed", "infoDelivery", t, l)
  \/ \E f \in MsgSources, e \in MsgEvents :
       /\ <<f, e>> # <<"embed", "infoDelivery">>
       /\ CtlMessage(f, e, Seconds(12), TRUE)
  \/ \E k \in ControlKeys : KeyDown(k)
  \/ \E v \in BarValues : SeekBar(v)

ControlsSpec == ControlsInit /\ [][ControlsNext]_vars

\* ---------------------------------------------------------- controls claims

\* C21: while live is true the Controls issue no seekTo command to the
\* adapter, neither from the seek bar nor from the keyboard shortcuts.
C21_NoSeekWhileLive ==
  ui.cmd = "seekTo" => ~ui.live

\* C27: every seek target issued by the keyboard shortcuts lies in
\* [0, duration].
C27_KeySeekWithinDuration ==
  (ui.cmd = "seekTo" /\ ui.by = "key") => (0 <= ui.arg /\ ui.arg <= ui.dur)

\* C23: the YouTube embed host is www.youtube.com for every youtube-shorts
\* descriptor whatever the cookie choice; for a regular youtube descriptor
\* it is the no-cookie domain exactly when the no-cookie option is on (given
\* as true, or left to the adapter's default, which is true).
C23_EmbedHost ==
  vendor.phase # "none" =>
    LET on == \/ cfg.noCookie = "on"
              \/ cfg.noCookie = "absent" /\ playerRev = "video"
    IN  /\ src = "yt_shorts" => vendor.host = "https://www.youtube.com"
        /\ src = "yt_a" =>
              (vendor.host = "https://www.youtube-nocookie.com" <=> on)
        /\ vendor.host \in {"https://www.youtube.com",
                            "https://www.youtube-nocookie.com"}

\* A regular video was embedded from the no-cookie domain because the
\* option was given as true, and the player became ready.
C23_Witness ==
  /\ src = "yt_a"
  /\ cfg.noCookie = "on"
  /\ playerRev = "src"
  /\ vendor.host = "https://www.youtube-nocookie.com"
  /\ store.ready

\* C38: a window message whose source is not the content window of the
\* mounted YouTube embed changes no PlaybackState field; of the embed's
\* messages only infoDelivery changes the state, and it changes none of
\* ready, duration, playbackStatus, started and error.
C38_OnlyEmbedInfoDelivery ==
  [][\A f \in MsgSources, e \in MsgEvents, t \in CtlTimes, l \in BOOLEAN :
       (vendor'.msg = <<f, e>> /\ ui' = ui /\ CtlMessage(f, e, t, l)) =>
         IF f = "embed" /\ e = "infoDelivery"
           THEN store' = [store EXCEPT !.currentTime = store'.currentTime,
                                       !.volume = store'.volume,
                                       !.muted = store'.muted,
                                       !.playbackRate = store'.playbackRate,
                                       !.live = store'.live]
           ELSE store' = store]_vars

\* The embed reported a position, and the last message, an infoDelivery
\* from another window, left it in place.
C38_Witness ==
  /\ vendor.msg = <<"other", "infoDelivery">>
  /\ store.currentTime = Seconds(12)
  /\ ~store.live

\* C26: onTimeUpdate is called with the store's {current, duration} after
\* every event that changes currentTime or duration, once per such event,
\* and not at all after an event that leaves both unchanged.
C26_TimeUpdatePerChange ==
  [][host.onTimeUpdate =>
       LET changed == \/ store'.currentTime # store.currentTime
                      \/ store'.duration # store.duration
       IN  /\ host'.timeCalls = (IF changed THEN 1 ELSE 0)
           /\ host'.time = <<store'.currentTime, store'.duration>>]_vars

\* An event left both values unchanged after both had changed.
C26_Witness ==
  /\ host.onTimeUpdate
  /\ host.timeCalls = 0
  /\ store.currentTime > 0
  /\ store.duration > 0
  /\ ui.n = 0

\* ===========================================================================
\* Part 5: the native adapter alone (NativeSpec).  The source and the
\* platform are drawn at mount; the rest is the playback model of a <video>
\* element.  NativeFair adds that a queued event is eventually dispatched.
\* ===========================================================================

\* The sources the native adapter is given: a file, an HLS playlist, a Mux
\* stream URL without extension, a DASH manifest, and a playlist URL with a
\* query string after the extension.
NativeSources == {"mp4_a", "m3u8_a", "mux_a", "mpd_a", "m3u8_q"}

\* src.endsWith(ext) and src.includes('stream.mux.com').
EndsWith(u, ext) ==
  CASE u = "m3u8_a" -> ext = ".m3u8"
    [] u = "mpd_a" -> ext = ".mpd"
    [] u = "mp4_a" -> ext = ".mp4"
    [] OTHER -> FALSE
IsMux(u) == u = "mux_a"

\* The branch the effect takes: the library it asks loadLibrary for ("none"
\* when it calls loadVideo) and the URL it hands on, the source itself or
\* the source with ".m3u8" appended.  hlsNative is
\* canPlayType('application/vnd.apple.mpegurl').
\* (LoadPathNoNative: an effect that does not ask the element.)
LoadPathNoNative(u, hlsNative) ==
  IF EndsWith(u, ".m3u8") \/ IsMux(u)
    THEN [lib |-> "Hls", appended |-> ~EndsWith(u, ".m3u8")]
  ELSE IF EndsWith(u, ".mpd")
    THEN [lib |-> "dashjs", appended |-> FALSE]
  ELSE [lib |-> "none", appended |-> FALSE]
LoadPath(u, hlsNative) ==
  IF EndsWith(u, ".m3u8") \/ IsMux(u)
    THEN [lib |-> IF hlsNative THEN "none" ELSE "Hls",
          appended |-> ~EndsWith(u, ".m3u8")]
  ELSE IF EndsWith(u, ".mpd")
    THEN [lib |-> "dashjs", appended |-> FALSE]
  ELSE [lib |-> "none", appended |-> FALSE]

\* The mount of the native adapter: loadVideo gives the element its source
\* at once; with a library the element gets it when the library is loaded.
NativeInit ==
  /\ loaderRev = "symbol"
  /\ now = 0
  /\ tags = [l \in Libs |-> 0]
  /\ hooked = [l \in Libs |-> FALSE]
  /\ symbol = [l \in Libs |-> FALSE]
  /\ flag = [l \in Libs |-> FALSE]
  /\ calls = <<>>
  /\ playerRev = "video"
  /\ nativeHls \in BOOLEAN
  /\ src \in NativeSources
  /\ cfg = [dc |-> FALSE, bunny |-> FALSE]
  /\ updates = 0
  /\ nev = 0
  /\ sessions = <<>>
  /\ comps = <<>>
  /\ everPlaying = FALSE
  /\ host = NewHost(1)
  /\ ui = NewUi("none")
  /\ store = DefaultState
  /\ vendor = [kind |-> "Video", rev |-> "plain",
               phase |-> IF LoadPath(src, nativeHls).lib = "none"
                           THEN "created" ELSE "none",
               vstate |-> "paused", vtime |-> 0, dur |-> MaxTime,
               playable |-> "absent", vol |-> 1000,
               req |-> Undef, lastErr |-> "none",
               q |-> <<>>, cmds |-> <<>>,
               wasBuffering |-> FALSE, lastState |-> NoState,
               wasPlaying |-> FALSE,
               ended |-> FALSE, lib |-> LoadPath(src, nativeHls).lib,
               stalled |-> FALSE, resumed |-> "none", byCmd |-> FALSE]

NativeNext ==
  \/ Create
  \/ Ready
  \/ Play
  \/ Pause
  \/ \E x \in Volumes : SetVolume(x)
  \/ \E t \in SeekTimes : SeekTo(t)
  \/ \E m \in Methods : Call(m)
  \/ VendorTick
  \/ VendorEnd
  \/ Deliver
  \/ VendorStall
  \/ VendorResume

NativeSpec == NativeInit /\ [][NativeNext]_vars

NativeFair == NativeSpec /\ WF_vars(Deliver)

\* C31: the Vimeo adapter's seekTo(t) writes currentTime = t at once, before
\* any vendor event or promise resolution.
C31_VimeoSeekWritesTime ==
  [][\A t \in SeekTimes :
       (vendor.kind = "Vimeo" /\ vendor.phase = "ready" /\ SeekTo(t)
          /\ host'.threw = host.threw)
         => store'.currentTime = t]_vars

\* C32: the Vimeo adapter's seekTo sets playbackStatus to buffering exactly
\* when it is issued while playbackStatus is playing; issued while paused it
\* leaves playbackStatus paused.
C32_VimeoSeekBuffersWhenPlaying ==
  [][\A t \in SeekTimes :
       (vendor.kind = "Vimeo" /\ SeekTo(t) /\ host'.threw = host.threw)
         => /\ (store'.state = "buffering" /\ store.state # "buffering")
                 <=> store.state = "playing"
            /\ store.state = "paused" => store'.state = "paused"]_vars

\* C33: within one mount currentTime decreases only as the direct result of
\* an explicit seek; a vendor time report produced before a seekTo(t) and
\* delivered after it does not move currentTime back.  While the seek
\* command is still waiting in vendor.cmds, every report in vendor.q was
\* produced before it.  (The seek is to a whole second, so that the
\* adapter's rounding of reports is not what moves the time.)
C33_StaleReportKeepsTime ==
  [][(/\ vendor.kind = "Youtube"
      /\ store.currentTime = Floor(store.currentTime)
      /\ \E i \in DOMAIN vendor.cmds :
            vendor.cmds[i] = Cmd("seek", store.currentTime)
      /\ Deliver
      /\ Head(vendor.q).ev = "info")
       => store'.currentTime >= store.currentTime]_vars

\* C39: the YouTube adapter's play() and pause() write playbackStatus only
\* when the most recent vendor state change was buffering (play writes
\* buffering, pause writes paused); otherwise they leave the PlaybackState
\* as it is.
C39_YtPlayPauseWriteOnlyAfterBuffering ==
  [][/\ (vendor.kind = "Youtube" /\ Play)
          => store' = IF vendor.lastState = 3
                        THEN [store EXCEPT !.state = "buffering"] ELSE store
     /\ (vendor.kind = "Youtube" /\ Pause)
          => store' = IF vendor.lastState = 3
                        THEN [store EXCEPT !.state = "paused"] ELSE store]_vars

\* pause() has acted after a buffering report: nothing else writes 'paused'
\* while the last state change is buffering.
C39_Witness ==
  /\ vendor.kind = "Youtube"
  /\ vendor.lastState = 3
  /\ store.state = "paused"

\* C28: in the Vimeo adapter a bufferend or seeked signal sets
\* playbackStatus to playing, and started to true, only if the player was
\* playing before the buffering or the seek began.
C28_VimeoSignalKeepsPaused ==
  [][(/\ vendor.kind = "Vimeo"
      /\ Deliver
      /\ Head(vendor.q).ev \in {"bufferend", "seeked"}
      /\ Head(vendor.q).arg = 0)
     => (store'.state # "playing" /\ store'.started = store.started)]_vars

\* ------------------------------------------------------------ native claims

\* C22: the native adapter chooses its loading path from the source and
\* the platform only: .m3u8 or Mux with native HLS is assigned directly with
\* no loader call, without native HLS it loads through Hls; .mpd loads
\* through dashjs; any other source is assigned directly.
C22_LoadPathBySourceAndPlatform ==
  LET hls == src \in {"m3u8_a", "mux_a"}
  IN  /\ (hls /\ nativeHls) => vendor.lib = "none"
      /\ (hls /\ ~nativeHls) => vendor.lib = "Hls"
      /\ src = "mpd_a" => vendor.lib = "dashjs"
      /\ src \in {"mp4_a", "m3u8_q"} => vendor.lib = "none"
      /\ vendor.lib = "none" => vendor.phase # "none"

\* An HLS source on a platform with native HLS became ready with no library.
C22_Witness ==
  /\ src = "mux_a"
  /\ nativeHls
  /\ vendor.lib = "none"
  /\ store.ready

\* C29: after a stall while playing, once the element has resumed,
\* playbackStatus returns to playing unless the host issues a command.
C29_StallResumesToPlaying ==
  (vendor.resumed = "yes") ~> (store.state = "playing" \/ vendor.resumed = "cmd")

\* The status went through buffering and is playing again, with no command
\* since the stall.
C29_Witness ==
  /\ vendor.resumed = "done"
  /\ vendor.q = <<>>
  /\ store.state = "playing"

\* C30: the autoplay guard of onCanPlay never pauses playback that was
\* started by an explicit play() command, also at a later canplay.
C30_GuardSparesExplicitPlay ==
  [][(/\ vendor.kind = "Video"
      /\ vendor.byCmd
      /\ vendor.vstate = "playing"
      /\ \/ Ready
         \/ Deliver /\ Head(vendor.q).ev = "canplay")
     => vendor'.vstate = "playing"]_vars

\* ------------------------------------------------------------ loader claims

\* C4: for every library, after any number of sequential or concurrent
\* loadLibrary calls (a retry after a rejected call included) document.head
\* holds exactly one script tag for the library's URL.
C4_OneScriptTag ==
  \A l \in Libs :
    (loaderRev # "wait" /\ \E i \in DOMAIN calls : calls[i].lib = l)
      => tags[l] = 1

\* C4 witness: a call injected the tag and was rejected, a later call for the
\* same library was made, and there is still one tag.
C4_Witness ==
  \E i, j \in DOMAIN calls :
    /\ i < j
    /\ calls[i].lib = calls[j].lib
    /\ calls[i].injected
    /\ calls[i].status = "rejected"
    /\ calls[j].start >= calls[i].start + calls[i].lastElapsed
    /\ tags[calls[i].lib] = 1

\* C5: a call resolves at the first poll at which the library's global is
\* observable on window, whoever put the script tag in the document: no poll
\* of a call sees the global on window and fails to resolve, and a resolved
\* call has the global on window.
C5_ResolvesAtFirstObservablePoll ==
  \A i \in DOMAIN calls :
    /\ ~calls[i].missed
    /\ calls[i].status = "resolved" => symbol[calls[i].lib]

\* C6 as stated: a call resolves only when the library is observed at a poll
\* before the timeout has elapsed, and rejects otherwise.
C6_ResolvesOnlyBeforeTimeout ==
  \A i \in DOMAIN calls :
    calls[i].status = "resolved" => calls[i].lastElapsed <= calls[i].timeout

\* What the last poll of each call found, by the call's status.
C6_Outcome ==
  \A i \in DOMAIN calls :
    LET c == calls[i] IN
      /\ c.polls >= 1
      /\ c.status = "resolved" => c.lastSeen
      /\ c.status = "rejected" => ~c.lastSeen /\ c.lastElapsed > c.timeout
      /\ c.status = "polling" =>
           /\ ~c.lastSeen
           /\ c.lastElapsed <= c.timeout
           /\ c.due = c.start + c.lastElapsed + c.interval

\* A settled call is never touched again: no second settlement, no further poll.
C6_Frozen ==
  \A i \in DOMAIN calls :
    calls[i].status # "polling" => (i \in DOMAIN calls' /\ calls'[i] = calls[i])

\* C6 (amended): every call eventually settles, exactly once; it resolves at
\* the first poll whose check finds the library, also when the timeout has
\* already elapsed at that poll, it rejects at the first poll that does not
\* find it with more than the timeout elapsed, and once settled it polls no
\* more.
C6_SettlesOnce ==
  /\ []C6_Outcome
  /\ [][C6_Frozen]_vars
  /\ \A i \in 1..MaxCalls :
       (i \in DOMAIN calls) ~> (i \in DOMAIN calls /\ calls[i].status # "polling")

\* C6 witness: one call was rejected after polling past its timeout and
\* another resolved at a poll later than its first.
C6_Witness ==
  \E i, j \in DOMAIN calls :
    /\ calls[i].status = "rejected" /\ calls[i].polls > 1
    /\ calls[j].status = "resolved" /\ calls[j].polls > 1

\* The timing of one call, over more intervals and timeouts than the calls
\* of LoaderSpec take: a timeout below, equal to and above the interval, and
\* timeouts that are and are not a multiple of it.
TimingIntervals == {1, 2}
TimingTimeouts == {1, 2, 3}

TimingNext ==
  \/ \E l \in Libs, iv \in TimingIntervals, to \in TimingTimeouts :
       calls = <<>> /\ LoadLibrary(l, iv, to)
  \/ Poll(1)
  \/ \E l \in Libs : ScriptExecuted(l)
  \/ Tick

TimingSpec == LoaderInit /\ [][TimingNext]_vars

\* C36: when the library never appears, a call rejects no earlier than its
\* timeout and no later than its timeout plus one polling interval after the
\* call: a rejected call was rejected inside that window, and no call is
\* still polling after it.
C36_RejectsWithinWindow ==
  \A i \in DOMAIN calls :
    LET c == calls[i] IN
      /\ c.status = "rejected" =>
           /\ c.lastElapsed >= c.timeout
           /\ c.lastElapsed <= c.timeout + c.interval
      /\ c.status = "polling" => now - c.start <= c.timeout + c.interval

\* C36 witness: the library never arrived and a call whose timeout is
\* shorter than its interval was rejected at its second poll.
C36_Witness ==
  \E i \in DOMAIN calls :
    /\ ~symbol[calls[i].lib]
    /\ calls[i].status = "rejected"
    /\ calls[i].timeout < calls[i].interval
    /\ calls[i].polls = 2

====
